---- MODULE Spec2Model ----
(***************************************************************************)
(* The event consumer of syncthing-linker: Main.loop_events and            *)
(* Main.process_event (app/main.py) driving the long-polling generator     *)
(* Events._events (app/Syncthing/Events.py, app/syncthing/events.py)       *)
(* against a remote event log (Spec, FairSpec, LiveSpec), and a caller     *)
(* that stops a stream and iterates it again (SpecStop); the path          *)
(* qualification of app/utilities.py, app/main.py and app/missing_files.py *)
(* applied to one path (SpecPath); their materializers on one destination, *)
(* called one after the other (SpecLink) and by two processes at once      *)
(* (SpecRace); the reconciliation scan of app/missing_files.py over a      *)
(* source tree, cut short and run again (SpecScan).                        *)
(*                                                                         *)
(* The library raises one error class (named SyncthingError in             *)
(* Syncthing/Events.py and main.py, SyncthingException in the base API of  *)
(* the later snapshot); it is called SyncthingError here.                  *)
(***************************************************************************)
EXTENDS Integers, Sequences, FiniteSets

(* ---------------------------- bounds ----------------------------------- *)
\* number of events the remote emits in a run
MaxId == 12
\* consecutive poll failures explored
MaxFail == 2
\* files the events refer to
NumItems == 2
\* materializer calls made one after the other for the same destination
MaxCalls == 3
\* runs of the reconciliation scan: all but the last one are cut short
MaxRuns == 2

(* ------------------------ program constants ---------------------------- *)
\* limit=10 passed by loop_events to syncthing.events
Limit == 10
\* `last_seen_id: int | None = None`
None == -1

VARIABLES
    pc,                   \* control point of the consumer
    last_seen_id,         \* local of loop_events
    stream_last_seen_id,  \* Events._last_seen_id of the current stream (the cursor)
    blocking,             \* Events.blocking of the current stream
    since,                \* params['since'] of the latest poll request
    data,                 \* the batch the generator iterates (ids of its events)
    idx,                  \* position of the generator's for loop in data
    sigPending,           \* the interrupt signal has arrived
    remoteLast,           \* highest id in the remote event log (ids 1..remoteLast),
                          \* as of the latest answer of the remote
    dest,                 \* destination tree: the entries that exist (ParentDir, items)
    delivery,             \* history: per event id, how its latest call of
                          \* process_event ended ("never" when there was none)
    redelivered,          \* history: an event process_event had returned from
                          \* was passed to process_event again
    returned,             \* history: ids of the events contained in batches polls returned
    lastPoll,             \* history: the latest completed poll: its since, outcome, last id
    visited,              \* history: control points passed since the latest poll completed
    failures,             \* history: consecutive failed polls
    lastDrained,          \* history: last id of the latest batch iterated to its end
    lastCall,             \* history: the call of process_event that has just ended:
                          \* its event, the remote lookups it made, and whether
                          \* one of them missed; NoCall once the loop has moved on
    stream_filters,       \* Events._filters of the current stream
    params_events         \* params['events'] of the latest poll request (empty: no
                          \* such parameter)

VARIABLES
    cfg_source,           \* app_config.source / config['source']: text of the source root
    cfg_destination,      \* app_config.destination: text of the destination root
    cfg_excludes,         \* app_config.excludes: the compiled exclusion pattern
    source_text,          \* text of the path handed to the pipeline
    source_kind,          \* what the filesystem holds at that path
    pathOut               \* what the pipeline made of the path: the verdict, the logged
                          \* reason, the checks evaluated, the destination it links

VARIABLES
    destTree,             \* the filesystem along one destination path: the destination
                          \* root, the parent directory of the file, the file's entry
    linkEnv,              \* whether the filesystem lets the source be hardlinked there
    calls,                \* materializer calls made for the destination
    linkOut,              \* the latest call: which materializer, how it ended
    treeBefore            \* history: the tree before the latest call

VARIABLES
    procPc,               \* per process materializing the destination: its step
    linksMade,            \* history: hardlinks created at the destination
    lostRace              \* history: the processes whose hardlink_to found the entry
                          \* made by the other process since their existence check

\* the state of the event consumer
consumerVars == <<pc, last_seen_id, stream_last_seen_id, blocking, since, data, idx,
                  sigPending, remoteLast, dest, delivery, redelivered, returned,
                  lastPoll, visited, failures, lastDrained, lastCall,
                  stream_filters, params_events>>
\* the state of the pipeline applied to one path
pathVars == <<cfg_source, cfg_destination, cfg_excludes, source_text, source_kind, pathOut>>
\* the state of the materializer on one destination
linkVars == <<destTree, linkEnv, calls, linkOut, treeBefore>>
VARIABLES
    scanPc,               \* the scan: in its loop ("walk"), inside link_missing_file
                          \* ("mkdir", "link"), through ("done"), left by an exception
    scanTodo,             \* entries rglob has still to yield
    scanCur,              \* the entry link_missing_file is working on
    scanPassed,           \* history: the entries this run passed to link_missing_file
    scanTree,             \* the destination tree: the directories and the links in it
    scanCuts              \* history: where the earlier runs of the scan were cut short

\* the state of a reconciliation scan
scanVars == <<scanPc, scanTodo, scanCur, scanPassed, scanTree, scanCuts>>

\* the state of two processes materializing the same destination
raceVars == <<procPc, linksMade, lostRace>>
\* the state the event loop itself never touches
fileVars == <<pathVars, linkVars, raceVars, scanVars>>

vars == <<consumerVars, fileVars>>

Ids == 1..MaxId
\* the events that have been passed to process_event
handed == {i \in Ids : delivery[i] # "never"}
Items == 1..NumItems

\* control points inside the try block of loop_events
TryPcs == {"Polling", "Blocked", "Processing", "Resume"}
\* no call of process_event has just ended
NoCall == [id |-> None, lookups |-> 0, miss |-> "none"]

\* control points from which nothing runs any more
FinalPcs == {"Stopped", "Killed", "Crashed"}

(* ------------------------ the event-type filter ------------------------ *)
Comma == ","
\* the value of `filters` in the configuration: a text of event types and commas
ConfigFilters == <<"ItemFinished", Comma, "LocalChangeDetected">>
\* values of `filters` the conversions are applied to: none, the default, more
FilterConfigs ==
    { <<>>, <<"ItemFinished">>, ConfigFilters,
      <<"ItemFinished", Comma, Comma, "LocalChangeDetected">>,
      <<"ItemFinished", Comma>> }

\* str.split(','): the texts between the commas, empty ones included
RECURSIVE splitFrom(_, _, _)
splitFrom(text, cur, acc) ==
    IF text = <<>> THEN Append(acc, cur)
    ELSE IF Head(text) = Comma
         THEN splitFrom(Tail(text), <<>>, Append(acc, cur))
         ELSE splitFrom(Tail(text), Append(cur, Head(text)), acc)
split(text) == splitFrom(text, <<>>, <<>>)

\* ','.join(names)
RECURSIVE join(_)
join(names) ==
    IF names = <<>> THEN <<>>
    ELSE IF Len(names) = 1 THEN Head(names)
    ELSE Head(names) \o <<Comma>> \o join(Tail(names))

\* Main.run: `filters` is None (here: the empty list, which _events makes of
\* None) unless the configuration has a non-empty text, which is split
configured_filters(text) == IF text = <<>> THEN <<>> ELSE split(text)

\* Events._events: `if filters: params['events'] = ','.join(filters)`
events_of(filters) == IF filters = <<>> THEN <<>> ELSE join(filters)

(* --------------------------- the remote -------------------------------- *)
\* the payload of the event with the given id: most events name a folder and
\* an item, some carry an error, some name neither, some (a folder summary)
\* name a folder but no item
EventShape(id) ==
    CASE id % 5 = 3 -> "error"
      [] id % 5 = 4 -> "bare"
      [] id % 5 = 2 -> "partial"
      [] OTHER -> "file"

\* the file an event refers to
ItemOf(id) == ((id - 1) % NumItems) + 1

Max(a, b) == IF a >= b THEN a ELSE b

\* GET /rest/events?since=s&limit=n: the events after s, only the last n of them
RemoteEvents(s, n, last) ==
    LET first == Max(s + 1, last - n + 1)
    IN  [i \in 1..(last - first + 1) |-> first + i - 1]

(* ------------------------- Events (the stream) ------------------------- *)
\* a stream that forgets the value it was given and starts from the beginning
InitialCursorFromStart(lsid) == 0

\* Events.__init__: self._last_seen_id = last_seen_id or 0
InitialCursor(lsid) == IF lsid = None \/ lsid = 0 THEN 0 ELSE lsid

\* last: dict = data[-1]; self._last_seen_id = last['id']
BatchCursor(batch) == batch[Len(batch)]

(* ======================= paths and qualification ======================= *)
\* A path text is a sequence of characters; a run of characters that is never
\* split ("files", ".tmp") stands for itself as one character.
Sep == "/"
DotDot == ".."

\* the values of `source` and `destination` in the configuration: the default
\* spelling with a trailing separator, and the spelling without it
SourceSpellings ==
    { <<Sep, "files", Sep, "source", Sep>>, <<Sep, "files", Sep, "source">> }
DestinationSpellings ==
    { <<Sep, "files", Sep, "destination", Sep>>, <<Sep, "files", Sep, "destination">> }

\* a compiled pattern: an optional leading `.*`, a literal text, an optional `$`
Pattern(any, lit, end) == [any |-> any, lit |-> lit, end |-> end]
EmptyPattern == Pattern(FALSE, <<>>, FALSE)            \* ''  (excludes not configured)
TmpPattern == Pattern(FALSE, <<".tmp">>, TRUE)         \* '\.tmp$'
AnyTmpPattern == Pattern(TRUE, <<".tmp">>, TRUE)       \* '.*\.tmp$'
FilesPattern == Pattern(FALSE, <<Sep, "files">>, FALSE) \* '/files'
ExcludesValues == {EmptyPattern, TmpPattern, AnyTmpPattern, FilesPattern}

\* the path texts the pipeline is given: folder path + item name of an event,
\* or an entry found by the scan
SourceTexts ==
    { <<Sep, "files", Sep, "source", Sep, "x", ".txt">>,
      <<Sep, "files", Sep, "source", Sep, "x", ".tmp">>,
      <<Sep, "files", Sep, "source", Sep, "x", ".tmp", ".txt">>,
      <<Sep, "files", Sep, "source", Sep, "a", Sep, "x", ".tmp">>,
      <<Sep, "files", Sep, "source", Sep, "a", Sep, "x", ".txt">>,
      <<Sep, "files", Sep, "source", "2", Sep, "x", ".txt">>,
      <<Sep, "files", Sep, "source", Sep, DotDot, Sep, "x", ".txt">>,
      <<Sep, "files", Sep, "x", ".tmp">>,
      <<Sep, "files", Sep, "source">>,
      <<Sep, "files", Sep, "source", Sep, "a">> }

\* what the filesystem holds at a path; "dangling" is a symbolic link whose
\* target is missing
Kinds == {"absent", "file", "dir", "dangling"}

\* Path.exists(): true of what the path leads to, through symbolic links
path_exists(kind) == kind \in {"file", "dir"}

IsPrefix(a, b) == Len(a) <= Len(b) /\ SubSeq(b, 1, Len(a)) = a
Drop(s, n) == SubSeq(s, n + 1, Len(s))

\* Path(text): the components between the separators; empty components (a
\* doubled or trailing separator) are dropped, `..` is kept
RECURSIVE PartsFrom(_, _, _)
PartsFrom(text, cur, acc) ==
    IF text = <<>>
    THEN IF cur = <<>> THEN acc ELSE Append(acc, cur)
    ELSE IF Head(text) = Sep
         THEN PartsFrom(Tail(text), <<>>, IF cur = <<>> THEN acc ELSE Append(acc, cur))
         ELSE PartsFrom(Tail(text), Append(cur, Head(text)), acc)
Parts(text) == PartsFrom(text, <<>>, <<>>)

\* str(path) of an absolute path: a separator before every component
RECURSIVE Str(_)
Str(parts) ==
    IF parts = <<>> THEN <<>> ELSE <<Sep>> \o Head(parts) \o Str(Tail(parts))

\* the canonical form: every `..` removes the component before it
RECURSIVE CanonFrom(_, _)
CanonFrom(parts, acc) ==
    IF parts = <<>> THEN acc
    ELSE IF Head(parts) = <<DotDot>>
         THEN CanonFrom(Tail(parts), IF acc = <<>> THEN acc ELSE SubSeq(acc, 1, Len(acc) - 1))
         ELSE CanonFrom(Tail(parts), Append(acc, Head(parts)))
Canonical(parts) == CanonFrom(parts, <<>>)

\* str.startswith: a prefix of characters
startswith(text, prefix) == IsPrefix(prefix, text)

\* PurePath.is_relative_to(other): a prefix of components, the path itself included
is_relative_to(parts, other) == IsPrefix(Parts(other), parts)

\* PurePath.relative_to(other), for a path that is relative to it
relative_to(parts, other) == Drop(parts, Len(Parts(other)))

\* the pattern's literal stands in s at position i, up to the end where `$` asks for it
MatchesAt(p, s, i) ==
    /\ i + Len(p.lit) - 1 <= Len(s)
    /\ SubSeq(s, i, i + Len(p.lit) - 1) = p.lit
    /\ p.end => i + Len(p.lit) - 1 = Len(s)

\* Pattern.search(s): a match at any position
re_search(p, s) == \E i \in 1..(Len(s) + 1) : MatchesAt(p, s, i)

\* Pattern.match(s): a match that begins at the first character (which a
\* leading `.*` lets run on to any position); the match object of an empty
\* match is true as well
re_match(p, s) == IF p.any THEN re_search(p, s) ELSE MatchesAt(p, s, 1)

\* no destination was passed on to the materializer
NoLink == <<>>
\* nothing has been applied to the path yet
NoOut == [fn |-> "none", ok |-> FALSE, reason |-> "none", evaluated |-> 0, link |-> NoLink]

\* a qualification that tests the exclusion before the location
source_path_is_qualifiedExcludesFirst(text, kind, source, excludes) ==
    LET source_path == Parts(text)
        Verdict(ok, reason, n) == [ok |-> ok, reason |-> reason, evaluated |-> n]
    IN  IF ~path_exists(kind) THEN Verdict(FALSE, "missing", 1)
        ELSE IF kind = "dir" THEN Verdict(FALSE, "folder", 2)
        ELSE IF re_match(excludes, Str(source_path)) THEN Verdict(FALSE, "excluded", 3)
        ELSE IF ~is_relative_to(source_path, source) THEN Verdict(FALSE, "outside", 4)
        ELSE Verdict(TRUE, "none", 4)

\* source_path_is_qualified(source_path, app_config, logger): the verdict, the
\* reason it logs, and the number of checks it evaluated
source_path_is_qualified(text, kind, source, excludes) ==
    LET source_path == Parts(text)
        Verdict(ok, reason, n) == [ok |-> ok, reason |-> reason, evaluated |-> n]
    IN  IF ~path_exists(kind) THEN Verdict(FALSE, "missing", 1)
        ELSE IF kind = "dir" THEN Verdict(FALSE, "folder", 2)
        ELSE IF ~is_relative_to(source_path, source) THEN Verdict(FALSE, "outside", 3)
        ELSE IF re_match(excludes, Str(source_path)) THEN Verdict(FALSE, "excluded", 4)
        ELSE Verdict(TRUE, "none", 4)

\* process_source_path: the verdict, and the destination path it hands to
\* link_source_to_destination
process_source_path(text, kind, source, destination, excludes) ==
    LET q == source_path_is_qualified(text, kind, source, excludes)
    IN  [fn |-> "pipeline", ok |-> q.ok, reason |-> q.reason, evaluated |-> q.evaluated,
         link |-> IF q.ok
                  THEN Parts(destination) \o relative_to(Parts(text), source)
                  ELSE NoLink]

\* process_event from `source_path = Path(source)` on: the path must exist and
\* its text must start with the text of the source root; the destination is
\* the text of the destination root followed by the rest of the source text
process_event_path(text, kind, source, destination) ==
    IF ~path_exists(kind)
    THEN [fn |-> "event", ok |-> FALSE, reason |-> "missing", evaluated |-> 1, link |-> NoLink]
    ELSE IF ~startswith(text, source)
    THEN [fn |-> "event", ok |-> FALSE, reason |-> "outside", evaluated |-> 2, link |-> NoLink]
    ELSE [fn |-> "event", ok |-> TRUE, reason |-> "none", evaluated |-> 2,
          link |-> Parts(destination \o Drop(text, Len(source)))]

\* the entries Path(source).rglob('*') yields: below the source root, spelled
\* without `..`, present (a dangling link is an entry as well)
IsScanEntry(text, kind, source) ==
    /\ kind # "absent"
    /\ is_relative_to(Parts(text), source)
    /\ Len(Parts(text)) > Len(Parts(source))
    /\ \A i \in 1..Len(text) : text[i] # DotDot

\* the body of the scan's loop for one entry: skip a directory, skip an
\* excluded entry, else link_missing_file
scan_entry(text, kind, source, destination, excludes) ==
    IF kind = "dir"
    THEN [fn |-> "scan", ok |-> FALSE, reason |-> "folder", evaluated |-> 1, link |-> NoLink]
    ELSE IF re_match(excludes, Str(Parts(text)))
    THEN [fn |-> "scan", ok |-> FALSE, reason |-> "excluded", evaluated |-> 2, link |-> NoLink]
    ELSE [fn |-> "scan", ok |-> TRUE, reason |-> "none", evaluated |-> 2,
          link |-> Parts(destination) \o relative_to(Parts(text), source)]

(* ======================== the destination tree ========================= *)
\* what can stand at the destination root (a directory, one that cannot be
\* written to, a regular file), at the parent directory and at the entry
\* (the link to the source, another file or link, a directory)
RootKinds == {"absent", "dir", "rodir", "file"}
ParentKinds == {"absent", "dir", "file"}
EntryKinds == {"absent", "link", "other", "dir"}

\* the trees a filesystem can hold: an entry stands in a directory
Trees ==
    {t \in [root : RootKinds, parent : ParentKinds, entry : EntryKinds] :
        /\ t.parent # "absent" => t.root \in {"dir", "rodir"}
        /\ t.entry # "absent" => t.parent = "dir"}

\* hardlink_to can succeed ("ok"), or fails whenever it is tried: the source
\* is on another device, the parent directory cannot be written to, or the
\* source is gone or has become a directory since it was qualified
LinkEnvs == {"ok", "oserror"}

\* destination_parent.exists()
parent_exists(t) == t.parent # "absent"

\* destination_parent.mkdir(parents=True, exist_ok=True): the tree it leaves
\* and whether it raised
mkdir_parents(t) ==
    CASE t.parent = "dir" -> [tree |-> t, raised |-> FALSE]
      [] t.parent = "file" -> [tree |-> t, raised |-> TRUE]
      [] t.parent = "absent" /\ t.root = "dir" ->
            [tree |-> [t EXCEPT !.parent = "dir"], raised |-> FALSE]
      [] t.parent = "absent" /\ t.root = "absent" ->
            [tree |-> [t EXCEPT !.root = "dir", !.parent = "dir"], raised |-> FALSE]
      \* PermissionError below a read-only root, NotADirectoryError below a file
      [] OTHER -> [tree |-> t, raised |-> TRUE]

\* destination_path.exists()
destination_exists(t) == t.parent = "dir" /\ t.entry # "absent"

\* destination_path.hardlink_to(source): the tree it leaves and how it ended
hardlink_to(t, env) ==
    IF t.parent # "dir" THEN [tree |-> t, end |-> "OSError"]
    ELSE IF t.entry # "absent" THEN [tree |-> t, end |-> "FileExistsError"]
    ELSE IF env # "ok" THEN [tree |-> t, end |-> "OSError"]
    ELSE [tree |-> [t EXCEPT !.entry = "link"], end |-> "linked"]

\* a materializer that puts its link in the place of whatever is there
link_source_to_destinationReplace(t, env) ==
    LET m == IF parent_exists(t) THEN [tree |-> t, raised |-> FALSE] ELSE mkdir_parents(t)
    IN  IF m.raised THEN [tree |-> m.tree, result |-> "raised"]
        ELSE IF m.tree.parent = "dir" /\ env = "ok"
        THEN [tree |-> [m.tree EXCEPT !.entry = "link"], result |-> "linked"]
        ELSE [tree |-> m.tree, result |-> "OSError"]

\* link_source_to_destination(source_path, destination_path, logger): the tree
\* it leaves and how it ended ("raised": an exception left it; otherwise it
\* returned: the destination was there, or what hardlink_to came to)
link_source_to_destination(t, env) ==
    LET m == IF parent_exists(t) THEN [tree |-> t, raised |-> FALSE] ELSE mkdir_parents(t)
    IN  IF m.raised THEN [tree |-> m.tree, result |-> "raised"]
        ELSE IF destination_exists(m.tree) THEN [tree |-> m.tree, result |-> "exists"]
        ELSE LET h == hardlink_to(m.tree, env)
             IN  [tree |-> h.tree, result |-> h.end]

\* a materializer that makes no directory
link_missing_fileNoMkdir(t, env) ==
    IF destination_exists(t) THEN [tree |-> t, result |-> "exists"]
    ELSE LET h == hardlink_to(t, env)
         IN  [tree |-> h.tree, result |-> h.end]

\* link_missing_file from `destination_parent = destination_path.parent` on
link_missing_file(t, env) ==
    LET m == IF parent_exists(t) THEN [tree |-> t, raised |-> FALSE] ELSE mkdir_parents(t)
    IN  IF m.raised THEN [tree |-> m.tree, result |-> "raised"]
        ELSE IF destination_exists(m.tree) THEN [tree |-> m.tree, result |-> "exists"]
        ELSE LET h == hardlink_to(m.tree, env)
             IN  [tree |-> h.tree, result |-> h.end]

\* process_event from `destination_parent = Path(destination_path.parent)` on
process_event_link(t, env) ==
    LET m == IF parent_exists(t) THEN [tree |-> t, raised |-> FALSE] ELSE mkdir_parents(t)
    IN  IF m.raised THEN [tree |-> m.tree, result |-> "raised"]
        ELSE IF destination_exists(m.tree) THEN [tree |-> m.tree, result |-> "exists"]
        ELSE LET h == hardlink_to(m.tree, env)
             IN  [tree |-> h.tree, result |-> h.end]

\* no materializer has been called
NoLinkOut == [fn |-> "none", result |-> "none"]

\* no destination is being materialized
LinkIdle ==
    /\ destTree = [root |-> "dir", parent |-> "absent", entry |-> "absent"]
    /\ linkEnv = "ok"
    /\ calls = 0
    /\ linkOut = NoLinkOut
    /\ treeBefore = destTree

\* the event consumer and a reconciliation scan
Procs == {"consumer", "scanner"}

\* no two processes are at the same destination
RaceIdle ==
    /\ procPc = [p \in Procs |-> "done"]
    /\ linksMade = 0
    /\ lostRace = {}

\* link_missing_file of the earlier scanner (missing-files.py), called by the
\* same loop: the destination is the text of the destination root followed
\* by the rest of str(source_path)
old_scan_entry(text, kind, source, destination, excludes) ==
    IF kind = "dir"
    THEN [fn |-> "oldscan", ok |-> FALSE, reason |-> "folder", evaluated |-> 1, link |-> NoLink]
    ELSE IF re_match(excludes, Str(Parts(text)))
    THEN [fn |-> "oldscan", ok |-> FALSE, reason |-> "excluded", evaluated |-> 2, link |-> NoLink]
    ELSE [fn |-> "oldscan", ok |-> TRUE, reason |-> "none", evaluated |-> 2,
          link |-> Parts(destination \o Drop(Str(Parts(text)), Len(source)))]

\* no scan is running
ScanIdle ==
    /\ scanPc = "done"
    /\ scanTodo = {}
    /\ scanCur = <<>>
    /\ scanPassed = {}
    /\ scanTree = [dirs |-> {}, links |-> {}]
    /\ scanCuts = <<>>

\* the pipeline has been given no path
PathIdle ==
    /\ cfg_source = <<Sep, "files", Sep, "source", Sep>>
    /\ cfg_destination = <<Sep, "files", Sep, "destination", Sep>>
    /\ cfg_excludes = EmptyPattern
    /\ source_text = <<>>
    /\ source_kind = "absent"
    /\ pathOut = NoOut

(* ---------------------------- the consumer ----------------------------- *)
\* loop_events before its first stream
InitConsumer ==
    /\ pc = "Create"
    /\ last_seen_id = None
    /\ stream_last_seen_id = 0
    /\ blocking = TRUE
    /\ since = 0
    /\ data = <<>>
    /\ idx = 0
    /\ sigPending = FALSE
    /\ remoteLast = 0
    /\ dest = {}
    /\ delivery = [i \in Ids |-> "never"]
    /\ redelivered = FALSE
    /\ returned = {}
    /\ lastPoll = [since |-> 0, outcome |-> "none", last |-> 0]
    /\ visited = {}
    /\ failures = 0
    /\ lastDrained = 0
    /\ lastCall = NoCall
    /\ stream_filters = <<>>
    /\ params_events = <<>>

Init == InitConsumer /\ PathIdle /\ LinkIdle /\ RaceIdle /\ ScanIdle

\* the interrupt signal arrives
Signal ==
    /\ ~sigPending
    /\ pc \notin FinalPcs
    /\ sigPending' = TRUE
    /\ UNCHANGED <<pc, last_seen_id, stream_last_seen_id, blocking, since, data, idx,
                   remoteLast, dest, delivery, redelivered, returned, lastPoll,
                   visited, failures, lastDrained, lastCall>>
    /\ UNCHANGED <<stream_filters, params_events>>
    /\ UNCHANGED fileVars

\* a loop that passes the filters to its first stream only
CreateStreamUnfiltered ==
    /\ pc = "Create"
    /\ ~sigPending
    /\ stream_last_seen_id' =
          IF last_seen_id # None /\ last_seen_id # 0
          THEN InitialCursor(last_seen_id) ELSE InitialCursor(None)
    /\ blocking' = TRUE
    /\ data' = <<>>
    /\ idx' = 0
    /\ pc' = "Polling"
    /\ visited' = visited \cup {"Polling"}
    /\ stream_filters' = IF last_seen_id # None /\ last_seen_id # 0
                         THEN <<>> ELSE configured_filters(ConfigFilters)
    /\ UNCHANGED <<last_seen_id, since, sigPending, remoteLast, dest, delivery,
                   redelivered, returned, lastPoll, failures, lastDrained, lastCall>>
    /\ UNCHANGED params_events
    /\ UNCHANGED fileVars

\* loop_events, top of `while True`: a new stream; `for event in event_stream`
\* starts its generator, which resets blocking
CreateStream ==
    /\ pc = "Create"
    /\ ~sigPending
    /\ stream_last_seen_id' =
          IF last_seen_id # None /\ last_seen_id # 0
          THEN InitialCursor(last_seen_id) ELSE InitialCursor(None)
    /\ blocking' = TRUE
    /\ data' = <<>>
    /\ idx' = 0
    /\ pc' = "Polling"
    /\ visited' = visited \cup {"Polling"}
    /\ stream_filters' = configured_filters(ConfigFilters)
    /\ UNCHANGED <<last_seen_id, since, sigPending, remoteLast, dest, delivery,
                   redelivered, returned, lastPoll, failures, lastDrained, lastCall>>
    /\ UNCHANGED params_events
    /\ UNCHANGED fileVars

\* Events._events: `while self.blocking:` builds params and calls self.get;
\* a generator whose flag is down ends, and loop_events starts over
IssuePoll ==
    /\ pc = "Polling"
    /\ ~sigPending
    /\ IF blocking
       THEN /\ since' = stream_last_seen_id
            /\ params_events' = events_of(stream_filters)
            /\ pc' = "Blocked"
            /\ visited' = visited
       ELSE /\ since' = since
            /\ params_events' = params_events
            /\ pc' = "Create"
            /\ visited' = visited \cup {"Create"}
    /\ UNCHANGED <<last_seen_id, stream_last_seen_id, blocking, data, idx, sigPending,
                   remoteLast, dest, delivery, redelivered, returned, lastPoll,
                   failures, lastDrained, lastCall>>
    /\ UNCHANGED stream_filters
    /\ UNCHANGED fileVars

Range(f) == {f[i] : i \in DOMAIN f}

\* self.get returns a non-empty list, the log having grown to n by the time the
\* remote answers: `if data:` holds, the first event is yielded
PollBatch ==
    /\ pc = "Blocked"
    /\ ~sigPending
    /\ \E n \in remoteLast..MaxId :
          /\ n > since
          /\ remoteLast' = n
    /\ data' = RemoteEvents(since, Limit, remoteLast')
    /\ idx' = 1
    /\ pc' = "Processing"
    /\ returned' = returned \cup Range(data')
    /\ lastPoll' = [since |-> since, outcome |-> "batch", last |-> remoteLast']
    /\ visited' = {"Processing"}
    /\ failures' = 0
    /\ UNCHANGED <<last_seen_id, stream_last_seen_id, blocking, since, sigPending,
                   dest, delivery, redelivered, lastDrained, lastCall>>
    /\ UNCHANGED <<stream_filters, params_events>>
    /\ UNCHANGED fileVars

\* self.get returns an empty list (the remote's own long-poll timeout):
\* `if data:` fails, the while loop goes round
PollEmpty ==
    /\ pc = "Blocked"
    /\ ~sigPending
    /\ remoteLast <= since
    /\ data' = <<>>
    /\ pc' = "Polling"
    /\ lastPoll' = [since |-> since, outcome |-> "empty", last |-> 0]
    /\ visited' = {"Polling"}
    /\ failures' = 0
    /\ UNCHANGED <<last_seen_id, stream_last_seen_id, blocking, since, idx, sigPending,
                   remoteLast, dest, delivery, redelivered, returned, lastDrained, lastCall>>
    /\ UNCHANGED <<stream_filters, params_events>>
    /\ UNCHANGED fileVars

\* a timeout that is not swallowed but raised to the caller like other errors
PollTimeoutRaised ==
    /\ pc = "Blocked"
    /\ ~sigPending
    /\ pc' = "Error"
    /\ lastPoll' = [since |-> since, outcome |-> "timeout", last |-> 0]
    /\ visited' = {"Error"}
    /\ UNCHANGED <<last_seen_id, stream_last_seen_id, blocking, since, data, idx,
                   sigPending, remoteLast, dest, delivery, redelivered, returned,
                   failures, lastDrained, lastCall>>
    /\ UNCHANGED <<stream_filters, params_events>>
    /\ UNCHANGED fileVars

\* self.get raises Timeout: `except (Timeout, TimeoutError): data = None`
PollTimeout ==
    /\ pc = "Blocked"
    /\ ~sigPending
    /\ data' = <<>>
    /\ pc' = "Polling"
    /\ lastPoll' = [since |-> since, outcome |-> "timeout", last |-> 0]
    /\ visited' = {"Polling"}
    /\ failures' = 0
    /\ UNCHANGED <<last_seen_id, stream_last_seen_id, blocking, since, idx, sigPending,
                   remoteLast, dest, delivery, redelivered, returned, lastDrained, lastCall>>
    /\ UNCHANGED <<stream_filters, params_events>>
    /\ UNCHANGED fileVars

\* a generator that forgets its cursor when the poll call fails
PollErrorLosesCursor ==
    /\ pc = "Blocked"
    /\ ~sigPending
    /\ failures < MaxFail
    /\ pc' = "Error"
    /\ stream_last_seen_id' = 0
    /\ lastPoll' = [since |-> since, outcome |-> "error", last |-> 0]
    /\ visited' = {"Error"}
    /\ failures' = failures + 1
    /\ UNCHANGED <<last_seen_id, blocking, since, data, idx,
                   sigPending, remoteLast, dest, delivery, redelivered, returned,
                   lastDrained, lastCall>>
    /\ UNCHANGED <<stream_filters, params_events>>
    /\ UNCHANGED fileVars

\* self.get raises anything else: `raise SyncthingError('', e)`, which ends the
\* generator and reaches `except SyncthingError` of loop_events
PollError ==
    /\ pc = "Blocked"
    /\ ~sigPending
    /\ failures < MaxFail
    /\ pc' = "Error"
    /\ lastPoll' = [since |-> since, outcome |-> "error", last |-> 0]
    /\ visited' = {"Error"}
    /\ failures' = failures + 1
    /\ UNCHANGED <<last_seen_id, stream_last_seen_id, blocking, since, data, idx,
                   sigPending, remoteLast, dest, delivery, redelivered, returned,
                   lastDrained, lastCall>>
    /\ UNCHANGED <<stream_filters, params_events>>
    /\ UNCHANGED fileVars

\* an except clause that does not read the cursor of the stream that failed
HandleErrorKeepsOld ==
    /\ pc = "Error"
    /\ ~sigPending
    /\ pc' = "Create"
    /\ visited' = visited \cup {"Create"}
    /\ lastCall' = NoCall
    /\ UNCHANGED <<last_seen_id, stream_last_seen_id, blocking, since, data, idx,
                   sigPending, remoteLast, dest, delivery, redelivered, returned,
                   lastPoll, failures, lastDrained>>
    /\ UNCHANGED <<stream_filters, params_events>>
    /\ UNCHANGED fileVars

\* loop_events: `except SyncthingError: last_seen_id = event_stream.last_seen_id`
HandleError ==
    /\ pc = "Error"
    /\ ~sigPending
    /\ last_seen_id' = stream_last_seen_id
    /\ pc' = "Create"
    /\ visited' = visited \cup {"Create"}
    /\ lastCall' = NoCall
    /\ UNCHANGED <<stream_last_seen_id, blocking, since, data, idx, sigPending,
                   remoteLast, dest, delivery, redelivered, returned, lastPoll,
                   failures, lastDrained>>
    /\ UNCHANGED <<stream_filters, params_events>>
    /\ UNCHANGED fileVars

(* -------------------------- process_event ------------------------------ *)
\* what a lookup (config.folder, database.file) gives: a dict with the key, a
\* dict without it, the library's error (HTTP 404, API error), or no dict at all
LookupResults == {"ok", "nokey", "error", "nondict"}
\* what mkdir(parents=True, exist_ok=True) gives
MkdirResults == {"ok", "oserror"}
\* what hardlink_to gives
LinkResults == {"ok", "exists", "oserror"}

\* the parent directory of every destination file
ParentDir == 0

\* a skip test that looks at the error payload only
is_skippedErrorOnly(shape) == shape = "error"

\* process_event: `data.get('error') is not None or 'folder' not in data or
\* 'item' not in data`
is_skipped(shape) == shape \in {"error", "bare", "partial"}

\* process_event(event) on the destination tree d; the result is how the call
\* ends ("return", "SyncthingError", "uncaught"), the tree it leaves, the
\* number of remote lookups it made and whether a lookup missed ("error": it
\* raised the library's error, "nokey": its payload lacks the expected key)
process_event(id, folderRes, fileRes, srcExists, srcUnderRoot, mkdirRes, linkRes, d) ==
    LET item == ItemOf(id)
        withParent == d \cup {ParentDir}
        End(res, tree, n, m) ==
            [result |-> res, dest |-> tree, lookups |-> n, miss |-> m]
    IN
    IF is_skipped(EventShape(id)) THEN End("return", d, 0, "none")
    ELSE IF folderRes = "error" THEN End("SyncthingError", d, 1, "error")
    ELSE IF fileRes = "error" THEN End("SyncthingError", d, 2, "error")
    ELSE IF folderRes = "nondict" THEN End("uncaught", d, 2, "none")
    ELSE IF folderRes = "nokey" THEN End("return", d, 2, "nokey")
    ELSE IF fileRes = "nondict" THEN End("uncaught", d, 2, "none")
    ELSE IF fileRes = "nokey" THEN End("return", d, 2, "nokey")
    ELSE IF ~srcExists THEN End("return", d, 2, "none")
    ELSE IF ~srcUnderRoot THEN End("return", d, 2, "none")
    ELSE IF ParentDir \notin d /\ mkdirRes = "oserror" THEN End("uncaught", d, 2, "none")
    ELSE IF item \in withParent THEN End("return", withParent, 2, "none")
    ELSE IF linkRes = "oserror" THEN End("return", withParent, 2, "none")
    \* linked, or FileExistsError: another process made the entry meanwhile
    ELSE End("return", withParent \cup {item}, 2, "none")

\* where loop_events continues when the body of its for loop ends that way
AfterEvent(result) ==
    CASE result = "return" -> "Resume"
      [] result = "SyncthingError" -> "Error"
      [] OTHER -> "Crashed"

\* loop_events: `self.process_event(syncthing, event)` on the yielded event
ProcessEvent ==
    /\ pc = "Processing"
    /\ ~sigPending
    /\ \E folderRes \in LookupResults, fileRes \in LookupResults,
          srcExists \in BOOLEAN, srcUnderRoot \in BOOLEAN,
          mkdirRes \in MkdirResults, linkRes \in LinkResults :
          LET r == process_event(data[idx], folderRes, fileRes, srcExists,
                                 srcUnderRoot, mkdirRes, linkRes, dest)
          IN  /\ dest' = r.dest
              /\ pc' = AfterEvent(r.result)
              /\ lastCall' = [id |-> data[idx], lookups |-> r.lookups, miss |-> r.miss]
    /\ delivery' = [delivery EXCEPT
                        ![data[idx]] = IF pc' = "Resume" \/ @ = "returned"
                                       THEN "returned" ELSE "raised"]
    /\ redelivered' = (redelivered \/ delivery[data[idx]] = "returned")
    /\ visited' = visited \cup {pc'}
    /\ UNCHANGED <<last_seen_id, stream_last_seen_id, blocking, since, data, idx,
                   sigPending, remoteLast, returned, lastPoll, failures, lastDrained>>
    /\ UNCHANGED <<stream_filters, params_events>>
    /\ UNCHANGED fileVars

\* a generator that moves the cursor with every event it has yielded
ResumeEager ==
    /\ pc = "Resume"
    /\ ~sigPending
    /\ stream_last_seen_id' = data[idx]
    /\ IF idx < Len(data)
       THEN /\ idx' = idx + 1
            /\ pc' = "Processing"
            /\ UNCHANGED lastDrained
       ELSE /\ lastDrained' = data[idx]
            /\ pc' = "Polling"
            /\ idx' = idx
    /\ visited' = visited \cup {pc'}
    /\ lastCall' = NoCall
    /\ UNCHANGED <<last_seen_id, blocking, since, data, sigPending, remoteLast, dest,
                   delivery, redelivered, returned, lastPoll, failures>>
    /\ UNCHANGED <<stream_filters, params_events>>
    /\ UNCHANGED fileVars

\* the generator after a yield: the next event of the batch, or past the batch
\* the assignment to self._last_seen_id and the next round of the while loop
Resume ==
    /\ pc = "Resume"
    /\ ~sigPending
    /\ IF idx < Len(data)
       THEN /\ idx' = idx + 1
            /\ pc' = "Processing"
            /\ UNCHANGED <<stream_last_seen_id, lastDrained>>
       ELSE /\ stream_last_seen_id' = BatchCursor(data)
            /\ lastDrained' = data[idx]
            /\ pc' = "Polling"
            /\ idx' = idx
    /\ visited' = visited \cup {pc'}
    /\ lastCall' = NoCall
    /\ UNCHANGED <<last_seen_id, blocking, since, data, sigPending, remoteLast, dest,
                   delivery, redelivered, returned, lastPoll, failures>>
    /\ UNCHANGED <<stream_filters, params_events>>
    /\ UNCHANGED fileVars

(* ---------------------------- cancellation ----------------------------- *)
\* a handler that stops the stream but does not leave the loop
InterruptNoExit ==
    /\ sigPending
    /\ pc \in TryPcs
    /\ blocking' = FALSE
    /\ sigPending' = FALSE
    /\ pc' = "Create"
    /\ UNCHANGED <<last_seen_id, stream_last_seen_id, since, data, idx, remoteLast,
                   dest, delivery, redelivered, returned, lastPoll, visited, failures,
                   lastDrained, lastCall>>
    /\ UNCHANGED <<stream_filters, params_events>>
    /\ UNCHANGED fileVars

\* KeyboardInterrupt inside the try block: event_stream.stop(); exit(0)
Interrupt ==
    /\ sigPending
    /\ pc \in TryPcs
    /\ blocking' = FALSE
    /\ pc' = "Stopped"
    /\ UNCHANGED <<last_seen_id, stream_last_seen_id, since, data, idx, sigPending,
                   remoteLast, dest, delivery, redelivered, returned, lastPoll,
                   visited, failures, lastDrained, lastCall>>
    /\ UNCHANGED <<stream_filters, params_events>>
    /\ UNCHANGED fileVars

\* KeyboardInterrupt outside the try block (creating the stream, in the except
\* clause): nothing catches it
InterruptOutsideTry ==
    /\ sigPending
    /\ pc \in {"Create", "Error"}
    /\ pc' = "Killed"
    /\ UNCHANGED <<last_seen_id, stream_last_seen_id, blocking, since, data, idx,
                   sigPending, remoteLast, dest, delivery, redelivered, returned,
                   lastPoll, visited, failures, lastDrained, lastCall>>
    /\ UNCHANGED <<stream_filters, params_events>>
    /\ UNCHANGED fileVars

Next ==
    \/ Signal
    \/ CreateStream
    \/ IssuePoll
    \/ PollBatch
    \/ PollEmpty
    \/ PollTimeout
    \/ PollError
    \/ HandleError
    \/ ProcessEvent
    \/ Resume
    \/ Interrupt
    \/ InterruptOutsideTry

Spec == Init /\ [][Next]_vars

\* a raised KeyboardInterrupt is handled: the interpreter keeps running
FairSpec == Spec /\ WF_vars(Interrupt)

\* the loop keeps running, and the remote keeps answering: a poll that waits
\* for events again and again is answered with a batch
LiveSpec == Spec /\ WF_vars(Next) /\ SF_vars(PollBatch)

(* ------------------ a stream that its caller stops --------------------- *)
\* the caller of the class's example: it iterates a stream, may call stop()
\* in the body of its loop, and may iterate the same stream again once the
\* loop has ended

\* a generator that does not look at the flag
StreamPollUnconditional ==
    /\ pc = "Polling"
    /\ since' = stream_last_seen_id
    /\ params_events' = events_of(stream_filters)
    /\ pc' = "Blocked"
    /\ visited' = visited
    /\ UNCHANGED <<last_seen_id, stream_last_seen_id, blocking, data, idx, sigPending,
                   remoteLast, dest, delivery, redelivered, returned, lastPoll,
                   failures, lastDrained, lastCall, stream_filters>>
    /\ UNCHANGED fileVars

\* Events._events: `while self.blocking:` builds params and calls self.get;
\* with the flag down the generator returns and the caller's loop ends
StreamPoll ==
    /\ pc = "Polling"
    /\ IF blocking
       THEN /\ since' = stream_last_seen_id
            /\ params_events' = events_of(stream_filters)
            /\ pc' = "Blocked"
            /\ visited' = visited
       ELSE /\ since' = since
            /\ params_events' = params_events
            /\ pc' = "Ended"
            /\ visited' = visited \cup {"Ended"}
    /\ UNCHANGED <<last_seen_id, stream_last_seen_id, blocking, data, idx, sigPending,
                   remoteLast, dest, delivery, redelivered, returned, lastPoll,
                   failures, lastDrained, lastCall, stream_filters>>
    /\ UNCHANGED fileVars

\* the body of the caller's loop for the event yielded; it may call
\* Events.stop: `self.blocking = False`
ClientEvent ==
    /\ pc = "Processing"
    /\ \E stop \in BOOLEAN : blocking' = (blocking /\ ~stop)
    /\ pc' = "Resume"
    /\ delivery' = [delivery EXCEPT ![data[idx]] = "returned"]
    /\ visited' = visited \cup {"Resume"}
    /\ UNCHANGED <<last_seen_id, stream_last_seen_id, since, data, idx, sigPending,
                   remoteLast, dest, redelivered, returned, lastPoll, failures,
                   lastDrained, lastCall, stream_filters, params_events>>
    /\ UNCHANGED fileVars

\* `for event in event_stream` once more: _events starts anew on the same
\* object, `if not self.blocking: self.blocking = True`
IterateAgain ==
    /\ pc = "Ended"
    /\ blocking' = TRUE
    /\ pc' = "Polling"
    /\ visited' = visited \cup {"Polling"}
    /\ UNCHANGED <<last_seen_id, stream_last_seen_id, since, data, idx, sigPending,
                   remoteLast, dest, delivery, redelivered, returned, lastPoll,
                   failures, lastDrained, lastCall, stream_filters, params_events>>
    /\ UNCHANGED fileVars

NextStop ==
    \/ CreateStream
    \/ StreamPoll
    \/ PollBatch
    \/ PollEmpty
    \/ PollTimeout
    \/ ClientEvent
    \/ Resume
    \/ IterateAgain

SpecStop == Init /\ [][NextStop]_vars

(* --------------------- the pipeline on one path ------------------------ *)
\* any configuration, any path text, anything at that path; the source root
\* itself is a synchronised folder: a directory, where it exists
InitPath ==
    /\ InitConsumer
    /\ cfg_source \in SourceSpellings
    /\ cfg_destination \in DestinationSpellings
    /\ cfg_excludes \in ExcludesValues
    /\ source_text \in SourceTexts
    /\ source_kind \in Kinds
    /\ Canonical(Parts(source_text)) = Parts(cfg_source) => source_kind # "file"
    /\ pathOut = NoOut
    /\ LinkIdle
    /\ RaceIdle
    /\ ScanIdle

\* the shared pipeline is applied to the path
ProcessSourcePath ==
    /\ pathOut = NoOut
    /\ pathOut' = process_source_path(source_text, source_kind, cfg_source,
                                      cfg_destination, cfg_excludes)
    /\ UNCHANGED <<cfg_source, cfg_destination, cfg_excludes, source_text, source_kind>>
    /\ UNCHANGED <<consumerVars, linkVars, raceVars, scanVars>>

\* process_event is applied to the path it resolved for an event
ProcessEventPath ==
    /\ pathOut = NoOut
    /\ pathOut' = process_event_path(source_text, source_kind, cfg_source, cfg_destination)
    /\ UNCHANGED <<cfg_source, cfg_destination, cfg_excludes, source_text, source_kind>>
    /\ UNCHANGED <<consumerVars, linkVars, raceVars, scanVars>>

\* the reconciliation scan comes to the path
ScanEntry ==
    /\ pathOut = NoOut
    /\ IsScanEntry(source_text, source_kind, cfg_source)
    /\ pathOut' = scan_entry(source_text, source_kind, cfg_source,
                             cfg_destination, cfg_excludes)
    /\ UNCHANGED <<cfg_source, cfg_destination, cfg_excludes, source_text, source_kind>>
    /\ UNCHANGED <<consumerVars, linkVars, raceVars, scanVars>>

\* the earlier scanner comes to the path
OldScanEntry ==
    /\ pathOut = NoOut
    /\ IsScanEntry(source_text, source_kind, cfg_source)
    /\ pathOut' = old_scan_entry(source_text, source_kind, cfg_source,
                                 cfg_destination, cfg_excludes)
    /\ UNCHANGED <<cfg_source, cfg_destination, cfg_excludes, source_text, source_kind>>
    /\ UNCHANGED <<consumerVars, linkVars, raceVars, scanVars>>

NextPath ==
    \/ ProcessSourcePath
    \/ ProcessEventPath
    \/ ScanEntry
    \/ OldScanEntry

SpecPath == InitPath /\ [][NextPath]_vars

(* ----------------- the materializers on one destination ---------------- *)
\* any tree at the destination, with a filesystem that lets the source be
\* linked there or does not
InitLink ==
    /\ InitConsumer
    /\ PathIdle
    /\ destTree \in Trees
    /\ linkEnv \in LinkEnvs
    /\ calls = 0
    /\ linkOut = NoLinkOut
    /\ treeBefore = destTree
    /\ RaceIdle
    /\ ScanIdle

\* the shared pipeline materializes the destination
LinkSourceToDestination ==
    /\ calls < MaxCalls
    /\ LET r == link_source_to_destination(destTree, linkEnv)
       IN  /\ destTree' = r.tree
           /\ linkOut' = [fn |-> "pipeline", result |-> r.result]
    /\ treeBefore' = destTree
    /\ calls' = calls + 1
    /\ UNCHANGED <<linkEnv, consumerVars, pathVars, raceVars, scanVars>>

\* the reconciliation scan materializes the destination
LinkMissingFile ==
    /\ calls < MaxCalls
    /\ LET r == link_missing_file(destTree, linkEnv)
       IN  /\ destTree' = r.tree
           /\ linkOut' = [fn |-> "scan", result |-> r.result]
    /\ treeBefore' = destTree
    /\ calls' = calls + 1
    /\ UNCHANGED <<linkEnv, consumerVars, pathVars, raceVars, scanVars>>

\* process_event materializes the destination
ProcessEventLink ==
    /\ calls < MaxCalls
    /\ LET r == process_event_link(destTree, linkEnv)
       IN  /\ destTree' = r.tree
           /\ linkOut' = [fn |-> "event", result |-> r.result]
    /\ treeBefore' = destTree
    /\ calls' = calls + 1
    /\ UNCHANGED <<linkEnv, consumerVars, pathVars, raceVars, scanVars>>

NextLink ==
    \/ LinkSourceToDestination
    \/ LinkMissingFile
    \/ ProcessEventLink

SpecLink == InitLink /\ [][NextLink]_vars

(* -------------- two processes at the same destination ------------------ *)
\* a destination not yet linked, below a destination root that is there or
\* is still to be created; the consumer (link_source_to_destination) and the
\* scan (link_missing_file) both set out to materialize it
InitRace ==
    /\ InitConsumer
    /\ PathIdle
    /\ destTree \in {t \in Trees : /\ t.root \in {"dir", "absent"}
                                  /\ t.parent \in {"dir", "absent"}
                                  /\ t.entry = "absent"}
    /\ linkEnv = "ok"
    /\ calls = 0
    /\ linkOut = NoLinkOut
    /\ treeBefore = destTree
    /\ procPc = [p \in Procs |-> "start"]
    /\ linksMade = 0
    /\ lostRace = {}
    /\ ScanIdle

\* `if not destination_parent.exists():`
RaceCheckParent ==
    /\ \E p \in Procs :
          /\ procPc[p] = "start"
          /\ procPc' = [procPc EXCEPT ![p] = IF parent_exists(destTree)
                                             THEN "checkDest" ELSE "mkdir"]
    /\ UNCHANGED <<destTree, linkEnv, calls, linkOut, treeBefore, linksMade, lostRace>>
    /\ UNCHANGED <<consumerVars, pathVars, scanVars>>

\* a mkdir without exist_ok: a directory that is already there is an error
RaceMkdirNoExistOk ==
    /\ \E p \in Procs :
          /\ procPc[p] = "mkdir"
          /\ IF destTree.parent # "absent"
             THEN procPc' = [procPc EXCEPT ![p] = "raised"] /\ UNCHANGED destTree
             ELSE IF destTree.root = "absent"
             THEN procPc' = [procPc EXCEPT ![p] = "mkdirRoot"] /\ UNCHANGED destTree
             ELSE /\ destTree' = [destTree EXCEPT !.parent = "dir"]
                  /\ procPc' = [procPc EXCEPT ![p] = "checkDest"]
    /\ UNCHANGED <<linkEnv, calls, linkOut, treeBefore, linksMade, lostRace>>
    /\ UNCHANGED <<consumerVars, pathVars, scanVars>>

\* mkdir(parents=True, exist_ok=True), its first os.mkdir: the parent is made;
\* or it is there by now (FileExistsError, for exist_ok to look at); or the
\* root is missing (FileNotFoundError) and is to be made first
RaceMkdir ==
    /\ \E p \in Procs :
          /\ procPc[p] = "mkdir"
          /\ IF destTree.parent # "absent"
             THEN procPc' = [procPc EXCEPT ![p] = "isDir"] /\ UNCHANGED destTree
             ELSE IF destTree.root = "absent"
             THEN procPc' = [procPc EXCEPT ![p] = "mkdirRoot"] /\ UNCHANGED destTree
             ELSE /\ destTree' = [destTree EXCEPT !.parent = "dir"]
                  /\ procPc' = [procPc EXCEPT ![p] = "checkDest"]
    /\ UNCHANGED <<linkEnv, calls, linkOut, treeBefore, linksMade, lostRace>>
    /\ UNCHANGED <<consumerVars, pathVars, scanVars>>

\* mkdir of the missing ancestors: self.parent.mkdir(parents=True, exist_ok=True)
RaceMkdirRoot ==
    /\ \E p \in Procs :
          /\ procPc[p] = "mkdirRoot"
          /\ destTree' = [destTree EXCEPT !.root = "dir"]
          /\ procPc' = [procPc EXCEPT ![p] = "mkdirAgain"]
    /\ UNCHANGED <<linkEnv, calls, linkOut, treeBefore, linksMade, lostRace>>
    /\ UNCHANGED <<consumerVars, pathVars, scanVars>>

\* then the directory itself: self.mkdir(mode, parents=False, exist_ok=exist_ok)
RaceMkdirAgain ==
    /\ \E p \in Procs :
          /\ procPc[p] = "mkdirAgain"
          /\ IF destTree.parent # "absent"
             THEN procPc' = [procPc EXCEPT ![p] = "isDir"] /\ UNCHANGED destTree
             ELSE /\ destTree' = [destTree EXCEPT !.parent = "dir"]
                  /\ procPc' = [procPc EXCEPT ![p] = "checkDest"]
    /\ UNCHANGED <<linkEnv, calls, linkOut, treeBefore, linksMade, lostRace>>
    /\ UNCHANGED <<consumerVars, pathVars, scanVars>>

\* mkdir's `except OSError: if not exist_ok or not self.is_dir(): raise`
RaceIsDir ==
    /\ \E p \in Procs :
          /\ procPc[p] = "isDir"
          /\ procPc' = [procPc EXCEPT ![p] = IF destTree.parent = "dir"
                                             THEN "checkDest" ELSE "raised"]
    /\ UNCHANGED <<destTree, linkEnv, calls, linkOut, treeBefore, linksMade, lostRace>>
    /\ UNCHANGED <<consumerVars, pathVars, scanVars>>

\* `if destination_path.exists(): return`
RaceCheckDest ==
    /\ \E p \in Procs :
          /\ procPc[p] = "checkDest"
          /\ procPc' = [procPc EXCEPT ![p] = IF destination_exists(destTree)
                                             THEN "done" ELSE "link"]
    /\ UNCHANGED <<destTree, linkEnv, calls, linkOut, treeBefore, linksMade, lostRace>>
    /\ UNCHANGED <<consumerVars, pathVars, scanVars>>

\* hardlink_to inside the try block: the link is made, or FileExistsError
\* (OSError) is caught and the function returns
RaceLink ==
    /\ \E p \in Procs :
          /\ procPc[p] = "link"
          /\ LET h == hardlink_to(destTree, linkEnv)
             IN  /\ destTree' = h.tree
                 /\ linksMade' = IF h.end = "linked" THEN linksMade + 1 ELSE linksMade
                 /\ lostRace' = IF h.end = "FileExistsError"
                                 THEN lostRace \cup {p} ELSE lostRace
          /\ procPc' = [procPc EXCEPT ![p] = "done"]
    /\ UNCHANGED <<linkEnv, calls, linkOut, treeBefore>>
    /\ UNCHANGED <<consumerVars, pathVars, scanVars>>

NextRace ==
    \/ RaceCheckParent
    \/ RaceMkdir
    \/ RaceMkdirRoot
    \/ RaceMkdirAgain
    \/ RaceIsDir
    \/ RaceCheckDest
    \/ RaceLink

SpecRace == InitRace /\ [][NextRace]_vars

(* ----------------------- the reconciliation scan ----------------------- *)
\* what the source tree holds at an entry: /files/source/a is a directory
ScanEntryKind(text) ==
    IF text = <<Sep, "files", Sep, "source", Sep, "a">> THEN "dir" ELSE "file"

\* the entries Path(source).rglob('*') yields, in no particular order
SourceTree ==
    {t \in SourceTexts : IsScanEntry(t, ScanEntryKind(t), cfg_source)}

\* Path(config.destination) / source_path.relative_to(config.source)
DestinationOf(text) == Parts(cfg_destination) \o relative_to(Parts(text), cfg_source)

\* the directories between the destination root and the path
ParentsOf(path) ==
    {SubSeq(path, 1, k) : k \in (Len(Parts(cfg_destination)) + 1)..(Len(path) - 1)}

\* a scan starts on an empty destination root, with any configuration
InitScan ==
    /\ InitConsumer
    /\ cfg_source \in SourceSpellings
    /\ cfg_destination \in DestinationSpellings
    /\ cfg_excludes \in ExcludesValues
    /\ source_text = <<>>
    /\ source_kind = "absent"
    /\ pathOut = NoOut
    /\ LinkIdle
    /\ RaceIdle
    /\ scanPc = "walk"
    /\ scanTodo = SourceTree
    /\ scanCur = <<>>
    /\ scanPassed = {}
    /\ scanTree = [dirs |-> {}, links |-> {}]
    /\ scanCuts = <<>>

\* the loop of main: the next entry; a directory and an excluded entry are
\* skipped, any other entry is passed to link_missing_file
ScanNext ==
    /\ scanPc = "walk"
    /\ \E t \in scanTodo :
          /\ scanTodo' = scanTodo \ {t}
          /\ IF scan_entry(t, ScanEntryKind(t), cfg_source, cfg_destination,
                           cfg_excludes).ok
             THEN /\ scanCur' = t
                  /\ scanPassed' = scanPassed \cup {t}
                  /\ scanPc' = "mkdir"
             ELSE UNCHANGED <<scanCur, scanPassed, scanPc>>
    /\ UNCHANGED <<scanTree, scanCuts>>
    /\ UNCHANGED <<consumerVars, pathVars, linkVars, raceVars>>

\* a materializer that gives the file up where one of the directories above
\* its destination is there already
ScanMkdirSkipsExisting ==
    /\ scanPc = "mkdir"
    /\ IF ParentsOf(DestinationOf(scanCur)) \cap scanTree.dirs # {}
       THEN scanPc' = "walk" /\ UNCHANGED scanTree
       ELSE /\ scanTree' = [scanTree EXCEPT !.dirs = @ \cup ParentsOf(DestinationOf(scanCur))]
            /\ scanPc' = "link"
    /\ UNCHANGED <<scanTodo, scanCur, scanPassed, scanCuts>>
    /\ UNCHANGED <<consumerVars, pathVars, linkVars, raceVars>>

\* link_missing_file: the parent directories, where the parent is missing
ScanMkdir ==
    /\ scanPc = "mkdir"
    /\ scanTree' = [scanTree EXCEPT !.dirs = @ \cup ParentsOf(DestinationOf(scanCur))]
    /\ scanPc' = "link"
    /\ UNCHANGED <<scanTodo, scanCur, scanPassed, scanCuts>>
    /\ UNCHANGED <<consumerVars, pathVars, linkVars, raceVars>>

\* a link step that does not look whether the destination is there
ScanLinkUnchecked ==
    /\ scanPc = "link"
    /\ IF DestinationOf(scanCur) \in scanTree.links
       THEN scanPc' = "raised" /\ UNCHANGED scanTree
       ELSE /\ scanTree' = [scanTree EXCEPT !.links = @ \cup {DestinationOf(scanCur)}]
            /\ scanPc' = "walk"
    /\ UNCHANGED <<scanTodo, scanCur, scanPassed, scanCuts>>
    /\ UNCHANGED <<consumerVars, pathVars, linkVars, raceVars>>

\* link_missing_file: return if the destination exists, else hardlink_to
ScanLink ==
    /\ scanPc = "link"
    /\ scanTree' = [scanTree EXCEPT !.links = @ \cup {DestinationOf(scanCur)}]
    /\ scanPc' = "walk"
    /\ UNCHANGED <<scanTodo, scanCur, scanPassed, scanCuts>>
    /\ UNCHANGED <<consumerVars, pathVars, linkVars, raceVars>>

\* rglob is exhausted: main returns
ScanFinish ==
    /\ scanPc = "walk"
    /\ scanTodo = {}
    /\ scanPc' = "done"
    /\ UNCHANGED <<scanTodo, scanCur, scanPassed, scanTree, scanCuts>>
    /\ UNCHANGED <<consumerVars, pathVars, linkVars, raceVars>>

\* the process is stopped where it stands and the scan is started again: it
\* keeps nothing but the destination tree
ScanRestart ==
    /\ scanPc \in {"walk", "mkdir", "link"}
    /\ Len(scanCuts) + 1 < MaxRuns
    /\ scanCuts' = Append(scanCuts, scanPc)
    /\ scanPc' = "walk"
    /\ scanTodo' = SourceTree
    /\ scanCur' = <<>>
    /\ scanPassed' = {}
    /\ UNCHANGED scanTree
    /\ UNCHANGED <<consumerVars, pathVars, linkVars, raceVars>>

NextScan ==
    \/ ScanNext
    \/ ScanMkdir
    \/ ScanLink
    \/ ScanFinish
    \/ ScanRestart

SpecScan == InitScan /\ [][NextScan]_vars

(* ------------------------------ claims --------------------------------- *)
\* the cursor of the consumer
cursor == stream_last_seen_id

\* C1: once a poll has returned a non-empty batch, the cursor is the id of the
\* batch's last event by the time the next poll is issued, whatever happened
\* to the single events; only a failed poll leaves the cursor where it was.
C1_CursorPastBatch ==
    (pc = "Blocked" /\ lastPoll.outcome = "batch") => since = lastPoll.last

\* C2: no event is lost: every event of the remote log that the cursor has
\* reached or passed has been handed to process_event, also when more than
\* Limit events had accumulated.
C2_NoEventLost ==
    \A id \in 1..remoteLast : id <= cursor => id \in handed

\* C3: after a failed poll the cursor is unchanged, the next poll carries the
\* since value of the failed one, however many polls fail in a row, and the
\* loop does not end unless it is interrupted.
C3_RetrySameCursor ==
    lastPoll.outcome = "error" =>
        /\ cursor = lastPoll.since
        /\ (pc = "Blocked" => since = lastPoll.since)
        /\ pc # "Crashed"
        /\ (pc \in {"Stopped", "Killed"} => sigPending)

C3_Witness ==
    /\ pc = "Blocked"
    /\ lastPoll.outcome = "error"
    /\ failures = MaxFail
    /\ since > 0

\* C4: between a failed poll and the next poll request the consumer passes
\* through a Backoff step.
C4_BackoffBeforeRetry ==
    (pc = "Blocked" /\ lastPoll.outcome = "error") => "Backoff" \in visited

\* C5: after a poll that timed out or returned nothing, no event is processed,
\* the cursor is unchanged, and the next thing the consumer does is a poll with
\* the same since value, on the same stream.
C5_TimeoutRepolls ==
    /\ [](lastPoll.outcome \in {"timeout", "empty"} =>
            /\ pc \in {"Polling", "Blocked", "Stopped"}
            /\ visited = {"Polling"}
            /\ cursor = lastPoll.since
            /\ (pc = "Blocked" => since = lastPoll.since))
    /\ [][lastPoll'.outcome \in {"timeout", "empty"} =>
            (delivery' = delivery /\ dest' = dest /\ last_seen_id' = last_seen_id)]_vars

C5_Witness ==
    /\ pc = "Blocked"
    /\ lastPoll.outcome = "timeout"
    /\ since > 0
    /\ remoteLast > since

\* C6: the cursor never decreases, and every poll carries a since value that is
\* at least the since value of the poll before it.
C6_CursorMonotone ==
    [][cursor' >= cursor /\ since' >= since]_vars

C6_Witness ==
    /\ pc = "Blocked"
    /\ last_seen_id > 0
    /\ since > last_seen_id
    /\ lastPoll.outcome = "batch"

\* C7: once the interrupt has arrived inside the try block, no poll is issued,
\* no poll result is applied, nothing more is processed, the cursor stays at
\* the last batch that was iterated to its end, and the loop reaches Stopped,
\* which it never leaves.
C7_Cancellation ==
    /\ [][(sigPending /\ pc \in TryPcs) =>
            /\ pc' = "Stopped"
            /\ since' = since /\ cursor' = cursor /\ data' = data /\ idx' = idx
            /\ delivery' = delivery /\ dest' = dest /\ lastPoll' = lastPoll]_vars
    /\ [][pc # "Stopped"]_vars
    /\ [](pc = "Stopped" => cursor = lastDrained)
    /\ ((sigPending /\ pc \in TryPcs) ~> pc = "Stopped")

C7_Witness ==
    /\ pc = "Stopped"
    /\ data # <<>>
    /\ idx < Len(data)
    /\ lastDrained > 0

\* C8: the cursor is written only once a batch has been iterated to its end:
\* it is its initial value or the last id of the latest such batch, never an id
\* of the batch in progress, and a poll that failed or timed out left it alone.
C8_CursorOnlyAfterBatch ==
    /\ cursor = lastDrained
    /\ (pc \in {"Processing", "Resume"} => (cursor = since /\ cursor < data[1]))
    /\ (lastPoll.outcome \in {"error", "timeout", "empty"} => cursor = lastPoll.since)

C8_Witness ==
    /\ pc = "Resume"
    /\ idx > 1
    /\ idx < Len(data)
    /\ lastDrained > 0

\* C9: at-least-once delivery: every event of every returned batch has been
\* passed to process_event by the time the cursor reaches its id, and an event
\* that is passed to process_event lies beyond the cursor.
C9_AtLeastOnce ==
    /\ \A id \in returned : cursor >= id => id \in handed
    /\ (pc = "Processing" => data[idx] > cursor)

\* C10: no event that process_event has dealt with is passed to it again
\* after the loop caught an error and made a new stream.
C10_NoRedelivery == ~redelivered
(* ------------------------- metadata lookups ---------------------------- *)
\* process_event has just ended for an event
CallEnded == lastCall = NoCall /\ lastCall' # NoCall

\* C11: a lookup that misses (it raises the library's error, or its payload
\* lacks the expected key) drops exactly its event: process_event returns, the
\* destination tree is as before, and the stream goes on past the event
C11_MissDropsOneEvent ==
    [][(CallEnded /\ lastCall'.miss # "none")
           => (pc' = "Resume" /\ dest' = dest)]_vars

\* the call returned normally, having looked nothing up and changed nothing
SkippedCall == lastCall'.lookups = 0 /\ dest' = dest /\ pc' = "Resume"

\* the call went into the lookups: both were made, unless the first one raised
ResolvedCall ==
    \/ lastCall'.lookups = 2
    \/ lastCall'.lookups = 1 /\ lastCall'.miss = "error"

\* C12 as stated: an event is skipped when it carries an error or names
\* neither folder nor item, and every other event goes through the lookups
C12_SkipErrorOrBare ==
    [][CallEnded => IF EventShape(lastCall'.id) \in {"error", "bare"}
                    THEN SkippedCall ELSE ResolvedCall]_vars

\* C12: an event is skipped (no lookup, no change of the tree, a normal return
\* that lets the stream go on) when it carries an error or lacks the folder or
\* the item; every event that names both goes through the lookups
C12_SkipErrorOrIncomplete ==
    [][CallEnded => IF EventShape(lastCall'.id) # "file"
                    THEN SkippedCall ELSE ResolvedCall]_vars

\* an event naming a folder but no item has been skipped, the tree holding links
C12_Witness ==
    /\ lastCall.id # None
    /\ EventShape(lastCall.id) = "partial"
    /\ lastCall.lookups = 0
    /\ pc = "Resume"
    /\ dest # {}

(* --------------------------- qualification ----------------------------- *)
\* the path lies below the root: the root's components and at least one more
Below(parts, root) == IsPrefix(root, parts) /\ Len(parts) > Len(root)

\* the four conditions of the qualification, each on its own
PathExists == path_exists(source_kind)
PathIsNoDir == source_kind # "dir"
PathUnderRoot == IsPrefix(Parts(cfg_source), Parts(source_text))
PathNotExcluded == ~re_match(cfg_excludes, Str(Parts(source_text)))

\* the first of the four conditions that fails, 0 when none does
FirstFailing ==
    CASE ~PathExists -> 1
      [] PathExists /\ ~PathIsNoDir -> 2
      [] PathExists /\ PathIsNoDir /\ ~PathUnderRoot -> 3
      [] PathExists /\ PathIsNoDir /\ PathUnderRoot /\ ~PathNotExcluded -> 4
      [] OTHER -> 0

\* C13: the qualification is true exactly when the path exists, is no
\* directory, lies under the source root and does not match the exclusion
\* pattern; the checks run in this order, the first failing one gives the
\* logged reason and no later check is evaluated
C13_QualifiedIffFourChecks ==
    pathOut.fn = "pipeline" =>
        /\ pathOut.ok = (PathExists /\ PathIsNoDir /\ PathUnderRoot /\ PathNotExcluded)
        /\ pathOut.reason = CASE FirstFailing = 1 -> "missing"
                               [] FirstFailing = 2 -> "folder"
                               [] FirstFailing = 3 -> "outside"
                               [] FirstFailing = 4 -> "excluded"
                               [] OTHER -> "none"
        /\ pathOut.evaluated = IF FirstFailing = 0 THEN 4 ELSE FirstFailing
        /\ pathOut.ok <=> pathOut.link # NoLink

\* a file outside the root that the pattern matches as well: the location is
\* the reason given, the pattern was not tried
C13_Witness ==
    /\ pathOut.fn = "pipeline"
    /\ source_kind = "file"
    /\ ~PathUnderRoot
    /\ ~PathNotExcluded
    /\ cfg_excludes # EmptyPattern
    /\ pathOut.reason = "outside"
    /\ pathOut.evaluated = 3

\* C14: a path that is not below the source root (a sibling whose name starts
\* with the root's text, the root itself) never qualifies and nothing is
\* linked for it, in the shared pipeline, the scan and process_event alike
C14_Containment ==
    (pathOut.fn # "none" /\ ~Below(Parts(source_text), Parts(cfg_source)))
        => (~pathOut.ok /\ pathOut.link = NoLink)

\* C15: a path whose text starts under the source root but whose canonical
\* form is the root or lies outside it is rejected by the qualification
C15_CanonicalContainment ==
    (/\ pathOut.fn = "pipeline"
     /\ PathUnderRoot
     /\ ~Below(Canonical(Parts(source_text)), Parts(cfg_source)))
        => ~pathOut.ok

\* the text ends with the given character
EndsWith(text, c) == text # <<>> /\ text[Len(text)] = c

\* C16: with the pattern `\.tmp$` every path ending in `.tmp` is rejected by
\* the qualification and skipped by the scan, wherever in the text the match
\* begins, and a path ending in `.txt` is not rejected because of the pattern
C16_UnanchoredExclusion ==
    (pathOut.fn \in {"pipeline", "scan"} /\ cfg_excludes = TmpPattern)
        => /\ EndsWith(source_text, ".tmp") => (~pathOut.ok /\ pathOut.link = NoLink)
           /\ EndsWith(source_text, ".txt") => pathOut.reason # "excluded"

\* C17: with the empty pattern every existing file below the source root
\* qualifies and is passed on to be linked, by the pipeline and by the scan
C17_EmptyExcludesNothing ==
    (/\ pathOut.fn \in {"pipeline", "scan"}
     /\ cfg_excludes = EmptyPattern
     /\ source_kind = "file"
     /\ Below(Parts(source_text), Parts(cfg_source)))
        => (pathOut.ok /\ pathOut.link # NoLink)

(* --------------------------- materialization --------------------------- *)
\* C18: a call that follows another call for the same destination leaves the
\* tree as the call before it left it, and raises nothing
C18_Idempotent ==
    calls >= 2 => (destTree = treeBefore /\ linkOut.result # "raised")

\* C19: whatever stands at the destination root, the parent or the entry
\* stays as it is under every call of a materializer, and a call that finds
\* the entry there returns normally, so that the stream goes on past the event
C19_ExistingEntriesKept ==
    [][/\ destTree.root # "absent" => destTree'.root = destTree.root
       /\ destTree.parent # "absent" => destTree'.parent = destTree.parent
       /\ destTree.entry # "absent" => destTree'.entry = destTree.entry
       /\ (destTree.entry # "absent" /\ calls' # calls) => linkOut'.result = "exists"]_vars

\* process_event and the pipeline have come upon a file of another origin
\* at the destination and left it there
C19_Witness ==
    /\ calls >= 2
    /\ treeBefore.entry = "other"
    /\ destTree.entry = "other"
    /\ linkOut = [fn |-> "pipeline", result |-> "exists"]

\* C20: when the consumer and the scan materialize the same destination at
\* the same time, whatever the order of their steps: no error leaves either
\* of them, at most one hardlink is made and when both are through the
\* destination is that link, and the one that finds the entry made by the
\* other has returned normally
C20_BenignRace ==
    /\ \A p \in Procs : procPc[p] # "raised"
    /\ linksMade <= 1
    /\ (\A p \in Procs : procPc[p] = "done")
          => (destTree.entry = "link" /\ linksMade = 1)
    /\ \A p \in lostRace : procPc[p] = "done"

\* both went past the existence check before either made the link; one of
\* them made it, the other one met FileExistsError
C20_Witness ==
    /\ \A p \in Procs : procPc[p] = "done"
    /\ lostRace # {}
    /\ destTree.entry = "link"

(* ----------------------------- OS failures ----------------------------- *)
\* C21: no failure of the filesystem, while the parent directories are made
\* or while the hardlink is made, leaves a materializer as an exception: the
\* call returns and the caller goes on with its next event or path
C21_OsFailureSkipsFile ==
    linkOut.fn # "none" => linkOut.result \in {"exists", "linked", "FileExistsError", "OSError"}

\* C22: the destination a materializer is to link a file at is the
\* destination root joined with the source path made relative to the source
\* root, and lies below the destination root, for every spelling of the two
\* roots
C22_InsideDestinationRoot ==
    (pathOut.link # NoLink /\ source_kind = "file") =>
        /\ pathOut.link = Parts(cfg_destination)
                              \o Drop(Parts(source_text), Len(Parts(cfg_source)))
        /\ Below(Canonical(pathOut.link), Parts(cfg_destination))

(* ------------------------------ the scan ------------------------------- *)
\* C23: when a scan has run to its end, every file below the source root
\* that the exclusion pattern does not exclude (a pattern found anywhere in
\* the path; the empty pattern excludes nothing) has been passed to
\* link_missing_file and is linked at its destination, and no directory is
\* passed on or linked
C23_ScanExhaustive ==
    scanPc = "done" =>
        \A t \in SourceTree :
            LET excluded == cfg_excludes # EmptyPattern
                                /\ re_search(cfg_excludes, Str(Parts(t)))
            IN  IF ScanEntryKind(t) = "dir"
                THEN t \notin scanPassed /\ DestinationOf(t) \notin scanTree.links
                ELSE ~excluded => (t \in scanPassed
                                    /\ DestinationOf(t) \in scanTree.links)

\* the tree one scan that is not cut short leaves: a link for every file that
\* its loop does not skip, and the directories above the links
FullScanTree ==
    LET linked == {t \in SourceTree :
                      scan_entry(t, ScanEntryKind(t), cfg_source, cfg_destination,
                                 cfg_excludes).ok}
    IN  [dirs |-> UNION {ParentsOf(DestinationOf(t)) : t \in linked},
         links |-> {DestinationOf(t) : t \in linked}]

\* C24: a scan that was cut short at any point and started again ends with
\* the tree that one whole scan leaves, and no exception leaves it on the
\* directories and links the earlier run made
C24_RerunSameTree ==
    /\ scanPc # "raised"
    /\ scanPc = "done" => scanTree = FullScanTree

\* a scan cut between the making of a directory and of the link in it, then
\* run again to its end over the links made before
C24_Witness ==
    /\ scanPc = "done"
    /\ scanCuts # <<>>
    /\ scanCuts[1] = "link"
    /\ \E t \in SourceTree : Len(DestinationOf(t)) > Len(Parts(cfg_destination)) + 1
                               /\ DestinationOf(t) \in scanTree.links

(* ------------------------- the life of the loop ------------------------ *)
\* C25: loop_events ends only by the cancellation signal: no poll outcome, no
\* event, no lookup and no filesystem failure takes the loop to its end
C25_StopsOnlyOnCancel == pc \in FinalPcs => sigPending

\* C26: an event that process_event has dealt with before and that is passed
\* to it again is dealt with without an error, and the link it made the first
\* time is neither made again nor replaced
C26_ReprocessingHarmless ==
    [][(CallEnded /\ delivery[lastCall'.id] = "returned")
           => /\ pc' = "Resume"
              /\ ItemOf(lastCall'.id) \in dest => dest' = dest]_vars

\* the part of C26 the materializer answers for: a second pass over an event
\* whose link stands leaves the destination tree as it is
ReprocessingKeepsTree ==
    [][(CallEnded /\ ItemOf(lastCall'.id) \in dest) => dest' = dest]_vars

(* --------------------- the consumer and the filter --------------------- *)
\* C27: the event consumer hands no path to the materializer that is a
\* directory or that the exclusion pattern is found in (shown for the paths
\* other than the source root itself)
C27_EventsThroughFilter ==
    LET excluded == /\ cfg_excludes # EmptyPattern
                    /\ re_search(cfg_excludes, Str(Parts(source_text)))
    IN  (/\ pathOut.fn = "event"
         /\ Parts(source_text) # Parts(cfg_source)
         /\ source_kind = "dir" \/ excluded)
            => pathOut.link = NoLink

(* ------------------------ progress of the cursor ----------------------- *)
\* C28: after a lookup for an event has failed, the cursor reaches the id of
\* that event (or the loop is stopped): the batch is not fetched for ever
C28_CursorLiveness ==
    \A i \in Ids :
        (pc = "Error" /\ lastCall.id = i /\ lastCall.miss = "error")
            ~> (pc \in FinalPcs \/ cursor >= i)

(* --------------------------- order of events --------------------------- *)
\* C29: events are passed to process_event in ascending order of id, batch
\* after batch: when an event is passed, every event with a smaller id that a
\* poll has returned has been passed before
C29_InOrder ==
    [][CallEnded => \A j \in returned : j < lastCall'.id => j \in handed]_vars

\* the order inside one batch: the event passed is the next of the batch, and
\* the events before it in the batch have smaller ids and have been passed
InBatchOrder ==
    [][CallEnded => /\ lastCall'.id = data[idx]
                    /\ \A k \in 1..(idx - 1) : data[k] < data[idx] /\ data[k] \in handed]_vars

(* --------------------- the scanner and the pipeline -------------------- *)
\* C30: for an entry of the scan the scanner comes to the verdict of
\* process_source_path and hands the same destination to its materializer,
\* and the two materializers leave the same tree with the same outcome
C30_ScannerAgrees ==
    /\ pathOut.fn = "scan" =>
           LET p == process_source_path(source_text, source_kind, cfg_source,
                                        cfg_destination, cfg_excludes)
           IN  pathOut.ok = p.ok /\ pathOut.link = p.link
    /\ \A t \in Trees : \A env \in LinkEnvs :
           link_missing_file(t, env) = link_source_to_destination(t, env)

(* ------------------------ order of materialization --------------------- *)
\* the tree that holds the links of a set of source files and the
\* directories above them
TreeOf(files) ==
    [dirs |-> UNION {ParentsOf(DestinationOf(t)) : t \in files},
     links |-> {DestinationOf(t) : t \in files}]

\* C31: the destination tree after a number of files were materialized is the
\* tree of that set of files, in whatever order they were taken, files that
\* share a missing parent directory included
C31_OrderIndependent ==
    (scanCuts = <<>> /\ scanPc \in {"walk", "done"}) => scanTree = TreeOf(scanPassed)

\* two files below the same directory, which was missing, have been linked
C31_Witness ==
    /\ scanCuts = <<>>
    /\ scanPc = "walk"
    /\ \E t, u \in scanPassed :
          /\ t # u
          /\ ParentsOf(DestinationOf(t)) # {}
          /\ ParentsOf(DestinationOf(t)) = ParentsOf(DestinationOf(u))
          /\ {DestinationOf(t), DestinationOf(u)} \subseteq scanTree.links

(* ------------------------ the parent directory ------------------------- *)
\* the outcomes of a call that came to hardlink_to
LinkStep == {"linked", "FileExistsError", "OSError"}

ParentAtLinkInRace ==
    \A p \in Procs : /\ procPc[p] = "link" => destTree.parent = "dir"
                     /\ procPc[p] # "raised"

\* both processes found the parent missing; one made it, the mkdir of the
\* other one came upon it
ParentMadeByTheOther ==
    \E p \in Procs : procPc[p] = "isDir" /\ destTree.parent = "dir"

(* --------------------------- the poll request -------------------------- *)
\* C33: every poll request carries the cursor as `since` (0 as long as no
\* batch was iterated to its end, else the last id of the latest such batch)
\* and the configured event types as `events`, on the first stream and on
\* every stream made after an error; the text of `events` is the text of the
\* configuration, whatever that is
C33_PollCarriesCursor ==
    /\ pc = "Blocked" => (since = cursor /\ since = lastDrained)
    /\ pc = "Blocked" => params_events = ConfigFilters
    /\ \A f \in FilterConfigs : events_of(configured_filters(f)) = f

\* the first poll of a stream made after an error, from a cursor beyond 0
C33_Witness ==
    /\ pc = "Blocked"
    /\ lastPoll.outcome = "error"
    /\ last_seen_id # None
    /\ since = last_seen_id
    /\ since > 0

(* ---------------------- exceptions of the poll call -------------------- *)
\* the poll call has come back: with a batch, with nothing, or by an exception
PollEnded == pc = "Blocked" /\ pc' \in {"Polling", "Processing", "Error"}

\* C34: a timeout of the poll call stays inside the generator, which goes on
\* to its next poll with its cursor unchanged; any other exception of the poll
\* call, and nothing else of it, reaches the caller as the library's error
\* with the cursor unchanged, and what the caller then reads as last_seen_id
\* is the value the failed poll was made with
C34_TimeoutSwallowed ==
    /\ [][PollEnded =>
            /\ lastPoll'.outcome = "timeout" =>
                   (pc' = "Polling" /\ blocking' /\ cursor' = cursor /\ cursor' = since)
            /\ lastPoll'.outcome = "error" => (pc' = "Error" /\ cursor' = cursor)
            /\ pc' = "Error" => lastPoll'.outcome = "error"]_vars
    /\ [][(pc = "Error" /\ lastPoll.outcome = "error" /\ pc' = "Create")
             => last_seen_id' = lastPoll.since]_vars

\* a poll failed after the cursor had moved on, and the caller has read the
\* cursor of the stream that failed
C34_Witness ==
    /\ pc = "Create"
    /\ lastPoll.outcome = "error"
    /\ lastPoll.since > 0
    /\ last_seen_id = lastPoll.since

(* --------------------------- a stopped stream -------------------------- *)
\* C35: once stop() was called no poll request is issued; the events left of
\* the batch in progress are yielded, the cursor is set to the last of them
\* and the generator ends; iterating the stream again puts the flag up and the
\* next request carries the cursor the stream has kept
C35_StopEndsAfterBatch ==
    /\ [][~blocking => (pc' # "Blocked" /\ since' = since /\ lastPoll' = lastPoll)]_vars
    /\ [][(~blocking /\ pc = "Resume" /\ idx < Len(data))
             => (pc' = "Processing" /\ idx' = idx + 1)]_vars
    /\ [][(~blocking /\ pc = "Polling") => pc' = "Ended"]_vars
    /\ [](pc = "Ended" => (idx = Len(data) /\ cursor = BatchCursor(data)))
    /\ [][(pc = "Ended" /\ pc' # "Ended")
             => (blocking' /\ pc' = "Polling" /\ cursor' = cursor)]_vars
    /\ [](pc = "Blocked" => since = cursor)

\* a stream that was stopped and ended, was iterated again and has a request
\* out from the cursor it kept
C35_Witness ==
    /\ pc = "Blocked"
    /\ "Ended" \in visited
    /\ since > 0
    /\ since = lastDrained

(* ------------------------ a source that vanishes ----------------------- *)
\* C36: where the source cannot be linked any more when hardlink_to is tried
\* (it was deleted or has become a directory since it was qualified), no
\* entry is made in the destination tree and the materializer returns, so
\* that the caller goes on with its next event or path
C36_VanishedSourceSkipped ==
    (linkEnv = "oserror" /\ linkOut.fn # "none") =>
        /\ destTree = treeBefore
        /\ linkOut.result # "raised"

(* ----------------------------- frame effects --------------------------- *)
\* C37: what the consumer, the pipeline and the scan make in the filesystem
\* is made below the destination root: the destination handed to a
\* materializer for something that can be linked lies below it
C37_OnlyCreatesUnderDestination ==
    (pathOut.link # NoLink /\ source_kind # "dir")
        => Below(Canonical(pathOut.link), Parts(cfg_destination))

\* the destination tree only grows while the scan runs, also over a tree an
\* earlier run has left
DestinationOnlyGrows ==
    [][/\ scanTree.dirs \subseteq scanTree'.dirs
       /\ scanTree.links \subseteq scanTree'.links]_vars

====
